---- MODULE Spec2Model ----
(***************************************************************************)
(* Model of the segment broadcast host (src/host.py).                      *)
(*                                                                         *)
(* Threads: the main thread (monitor_and_send -> check_for_new_chunks ->    *)
(* send_chunk_to_all_current, then cleanup_server), the accept loop        *)
(* (start_server_loop), one handler thread per accepted connection         *)
(* (handle_client).  Environment: the encoder writing segment files one    *)
(* after the other, and the peers, which may reset their connection.       *)
(*                                                                         *)
(* A file name is a sequence of tokens: the prefix "chunk_", the           *)
(* characters of the index, the extension ".mp4".  A path is represented   *)
(* by its file name: every path is os.path.join(CHUNK_DIR, name) and is    *)
(* only ever used through os.path.basename or as a key.                    *)
(***************************************************************************)
EXTENDS Integers, Sequences, FiniteSets, TLC

\* ------------------------------------------------------------------ bounds
MaxSeg == 2
MaxSize == 1
NConns == 2

\* --------------------------------------------------------------- constants
CHUNK_PREFIX == "chunk_"
\* the file extension f".{CHUNK_FORMAT}"
ChunkExt == ".mp4"

Digits == <<"0", "1", "2", "3", "4", "5", "6", "7", "8", "9">>

\* ----------------------------------------------------------- pure helpers
Range(s) == {s[i] : i \in 1..Len(s)}

\* "%03d" % i, for 0 <= i < 1000
Pad3(i) == <<Digits[(i \div 100) + 1], Digits[((i \div 10) % 10) + 1], Digits[(i % 10) + 1]>>

\* the encoder's output pattern  CHUNK_PREFIX + "%03d" + "." + CHUNK_FORMAT
FileName(i) == <<CHUNK_PREFIX>> \o Pad3(i) \o <<ChunkExt>>

\* str.replace(tok, ""): every occurrence of the token is removed
Replace(name, tok) == SelectSeq(name, LAMBDA x : x # tok)

DigitValue(ch) == CHOOSE d \in 0..9 : Digits[d + 1] = ch

IsDigit(ch) == \E d \in 0..9 : Digits[d + 1] = ch

RECURSIVE IntOf(_)
IntOf(s) == IF s = <<>> THEN 0
            ELSE 10 * IntOf(SubSeq(s, 1, Len(s) - 1)) + DigitValue(s[Len(s)])

\* int(name.replace(CHUNK_PREFIX, "").replace(".mp4", "")); -1 stands for ValueError
ParseIndex(name) ==
  LET body == Replace(Replace(name, CHUNK_PREFIX), ChunkExt)
  IN  IF body # <<>> /\ \A i \in 1..Len(body) : IsDigit(body[i])
      THEN IntOf(body)
      ELSE -1

\* name.startswith(CHUNK_PREFIX) and name.endswith(".mp4")
MatchesPattern(name) ==
  /\ Len(name) >= 1
  /\ name[1] = CHUNK_PREFIX
  /\ name[Len(name)] = ChunkExt

\* list.sort(key = ParseIndex): insertion of one element into a sorted list,
\* after the elements whose key is not greater (the sort is stable)
RECURSIVE InsertSorted(_, _)
InsertSorted(x, s) ==
  IF s = <<>> THEN <<x>>
  ELSE IF ParseIndex(s[Len(s)]) <= ParseIndex(x) THEN Append(s, x)
  ELSE Append(InsertSorted(x, SubSeq(s, 1, Len(s) - 1)), s[Len(s)])

RECURSIVE SortByIndex(_)
SortByIndex(s) ==
  IF s = <<>> THEN <<>>
  ELSE InsertSorted(s[Len(s)], SortByIndex(SubSeq(s, 1, Len(s) - 1)))

\* the orders in which a set may be iterated
RECURSIVE Orders(_)
Orders(S) ==
  IF S = {} THEN {<<>>}
  ELSE UNION {{<<x>> \o t : t \in Orders(S \ {x})} : x \in S}

Indices(s) == [i \in 1..Len(s) |-> ParseIndex(s[i])]

\* len(filename): the number of characters of a file name
TokenLen(tok) == IF tok = CHUNK_PREFIX THEN 6 ELSE IF tok = ChunkExt THEN 4 ELSE 1

RECURSIVE NameLen(_)
NameLen(name) == IF name = <<>> THEN 0 ELSE TokenLen(Head(name)) + NameLen(Tail(name))

\* the frame of lines 51-56: index, length of the file name, file name, length
\* of the payload; the payload is represented by its length
Frame(index, filename, chunk_size) ==
  [segment_index |-> index, filename_length |-> NameLen(filename),
   filename |-> filename, payload_length |-> chunk_size]

FrameIndices(s) == [i \in 1..Len(s) |-> s[i].segment_index]

\* the names of the segment files the encoder writes
SegNames == {FileName(i) : i \in 0..(MaxSeg - 1)}

\* a file of the chunk directory that has the prefix and the extension of a
\* segment file and no integer in between: chunk_abc.mp4
ForeignName == <<CHUNK_PREFIX, "a", "b", "c", ChunkExt>>

\* the file names of the chunk directory
Names == SegNames \cup {ForeignName}
Conns == 1..NConns

\* the main thread; the handler thread of a connection bears the connection's
\* number
MainThread == 0

Threads == {MainThread} \cup Conns

\* a "with lock:" statement whose exit leaves the lock held
ReleaseOnExitKept(lock, t) == lock

\* the exit of a "with lock:" statement releases the lock
ReleaseOnExit(lock, t) == lock \ {t}

\* a "with lock:" block run by thread t: the thread has acquired the lock, or
\* acquires the free lock on entering the block; no other thread holds it; the
\* exit of the block releases it
WithLock(lock, t) ==
  /\ lock \subseteq {t}
  /\ lock' = ReleaseOnExit(lock, t)

\* ------------------------------------------------------------------- state
VARIABLES
  fsize,                    \* the chunk directory: file name -> size, -1 = no such file
  encCur,                   \* the index of the segment the encoder writes next or is writing
  ffmpeg,                   \* "running" | "exited"  (ffmpeg_process.poll())
  wpc,                      \* position of the main thread
  processed_chunk_indices,  \* monitor_and_send: indices marked processed
  stable_files,             \* monitor_and_send: watched file name -> last size, -1 = not a key
  last_checked_files,       \* global: the listing of the previous completed poll
  current_files,            \* check_for_new_chunks: the listing of this poll
  files_to_process,         \* check_for_new_chunks: what is left of the sorted list
  final_check,              \* check_for_new_chunks: the final_check argument of this poll
  available_chunk_paths,    \* global list (the store), in append order
  clients,                  \* global list (the registry), in append order
  current_client_list,      \* send_chunk_to_all_current: the copy of clients of this pass
  bpos,                     \* send_chunk_to_all_current: position of the for loop in the copy
  disconnected_clients,     \* send_chunk_to_all_current: connections marked for removal
  server_running,           \* global flag
  listening,                \* the listening socket is open
  acceptLoop,               \* start_server_loop: "running" | "exited"
  client_list,              \* cleanup_server: the copy of clients still to be closed
  hpc,                      \* handle_client: position of each connection's handler
  paths_to_send_on_connect, \* handle_client: the backlog snapshot
  rpos,                     \* handle_client: position of the replay loop in the snapshot
  client_still_connected,   \* handle_client: local flag
  sock,                     \* each connection's socket: "open", "reset" (the peer has reset
                            \* or closed the connection), "closed" (the server has closed
                            \* it: conn.fileno() = -1)
  recvd,                    \* history: the frames written to each connection, in order
  appendedInWindow,         \* history, recorded under SpecRecorded only: a segment was
                            \* appended between the connection's snapshot and registration
  prevSize,                 \* history: file name -> size at the previous poll, -1 = no file
  sentByPass,               \* history, recorded under SpecRecorded only: the indices a
                            \* broadcast pass has written to each connection
  clients_lock,             \* the threads that hold clients_lock
  available_paths_lock      \* the threads that hold available_paths_lock

fsVars == <<fsize, encCur, ffmpeg>>
pollVars == <<processed_chunk_indices, stable_files, last_checked_files, current_files,
              files_to_process, final_check, prevSize>>
passVars == <<current_client_list, bpos, disconnected_clients>>
srvVars == <<server_running, listening, acceptLoop, client_list>>
handlerVars == <<hpc, paths_to_send_on_connect, rpos, client_still_connected>>
lockVars == <<clients_lock, available_paths_lock>>
vars == <<fsVars, wpc, pollVars, available_chunk_paths, clients, passVars, srvVars,
          handlerVars, sock, recvd, appendedInWindow, sentByPass, lockVars>>

Init ==
  /\ fsize = [f \in Names |-> -1]
  /\ encCur = 0
  /\ ffmpeg = "running"
  /\ wpc = "monitor"
  /\ processed_chunk_indices = {}
  /\ stable_files = [f \in Names |-> -1]
  /\ last_checked_files = {}
  /\ current_files = {}
  /\ files_to_process = <<>>
  /\ final_check = FALSE
  /\ available_chunk_paths = <<>>
  /\ clients = <<>>
  /\ current_client_list = <<>>
  /\ bpos = 0
  /\ disconnected_clients = <<>>
  /\ server_running = TRUE
  /\ listening = TRUE
  /\ acceptLoop = "running"
  /\ client_list = <<>>
  /\ hpc = [c \in Conns |-> "unborn"]
  /\ paths_to_send_on_connect = [c \in Conns |-> <<>>]
  /\ rpos = [c \in Conns |-> 0]
  /\ client_still_connected = [c \in Conns |-> TRUE]
  /\ sock = [c \in Conns |-> "open"]
  /\ recvd = [c \in Conns |-> <<>>]
  /\ appendedInWindow = [c \in Conns |-> FALSE]
  /\ prevSize = [f \in Names |-> -1]
  /\ sentByPass = [c \in Conns |-> {}]
  /\ clients_lock = {}
  /\ available_paths_lock = {}

\* ----------------------------------------------------------------- encoder
\* ffmpeg's segment muxer writes one segment file at a time: it creates
\* chunk_%03d.mp4 empty, appends to it, then goes on to the next index.
EncCreate ==
  /\ ffmpeg = "running"
  /\ encCur < MaxSeg
  /\ fsize[FileName(encCur)] = -1
  /\ fsize' = [fsize EXCEPT ![FileName(encCur)] = 0]
  /\ UNCHANGED <<encCur, ffmpeg, wpc, pollVars, available_chunk_paths, clients, passVars,
                 srvVars, handlerVars, sock, recvd, appendedInWindow, sentByPass, lockVars>>

EncWrite ==
  /\ ffmpeg = "running"
  /\ encCur < MaxSeg
  /\ fsize[FileName(encCur)] \in 0..(MaxSize - 1)
  /\ fsize' = [fsize EXCEPT ![FileName(encCur)] = @ + 1]
  /\ UNCHANGED <<encCur, ffmpeg, wpc, pollVars, available_chunk_paths, clients, passVars,
                 srvVars, handlerVars, sock, recvd, appendedInWindow, sentByPass, lockVars>>

EncClose ==
  /\ ffmpeg = "running"
  /\ encCur < MaxSeg
  /\ fsize[FileName(encCur)] >= 1
  /\ encCur' = encCur + 1
  /\ UNCHANGED <<fsize, ffmpeg, wpc, pollVars, available_chunk_paths, clients, passVars,
                 srvVars, handlerVars, sock, recvd, appendedInWindow, sentByPass, lockVars>>

EncExit ==
  /\ ffmpeg = "running"
  /\ ffmpeg' = "exited"
  /\ UNCHANGED <<fsize, encCur, wpc, pollVars, available_chunk_paths, clients, passVars,
                 srvVars, handlerVars, sock, recvd, appendedInWindow, sentByPass, lockVars>>

\* ------------------------------------------------- check_for_new_chunks
\* os.listdir(CHUNK_DIR)
Listing == {f \in Names : fsize[f] # -1}

\* the stability test without the comparison with the recorded size
IsStableNonEmpty(current_size, last_size) == current_size > 0

\* line 287: the stability test of a watched file
IsStable(current_size, last_size) == current_size = last_size /\ current_size > 0

Watched == {f \in Names : stable_files[f] # -1}

\* lines 279-297: the watched files judged stable in this poll; errs are the
\* files whose os.path.getsize raises in this poll
StableNow(errs) ==
  {f \in Watched : /\ f \in Listing
                   /\ f \notin errs
                   /\ IsStable(fsize[f], stable_files[f])
                   /\ MatchesPattern(f)}

\* lines 279-301: stable_files after the stability check
StableAfterCheck(errs) ==
  [f \in Names |->
     IF f \notin Watched THEN -1
     ELSE IF f \notin Listing THEN -1
     ELSE IF f \in errs THEN -1
     ELSE IF IsStable(fsize[f], stable_files[f]) THEN -1
     ELSE IF fsize[f] # stable_files[f] THEN fsize[f]
     ELSE stable_files[f]]

\* lines 304-310: the newly detected files start being watched
StableAfterNew(st, errs) ==
  [f \in Names |->
     IF f \in (Listing \ last_checked_files) /\ MatchesPattern(f) /\ f \notin errs
     THEN fsize[f]
     ELSE st[f]]

\* lines 313-329: what the final flush adds to files_to_process
FinalAdded(already, errs) ==
  {f \in Listing : /\ MatchesPattern(f)
                   /\ f \notin already
                   /\ ParseIndex(f) # -1
                   /\ ParseIndex(f) \notin processed_chunk_indices
                   /\ f \notin errs
                   /\ fsize[f] > 0}

\* line 327: the final flush drops an empty file from stable_files
StableAfterFinal(st, already, errs) ==
  [f \in Names |->
     IF /\ f \in Listing
        /\ MatchesPattern(f)
        /\ f \notin already
        /\ ParseIndex(f) # -1
        /\ ParseIndex(f) \notin processed_chunk_indices
        /\ f \notin errs
        /\ ~(fsize[f] > 0)
     THEN -1
     ELSE st[f]]

\* line 333: files_to_process.sort(key = index)
SortFiles(s) == SortByIndex(s)

\* lines 335 and 354, monitor_and_send lines 257-264: the loop over the files to
\* process goes on with the files that are left; when none is left the poll ends:
\* the listing is kept for the next poll, and the main thread goes back to the
\* monitoring loop or, after the final flush, leaves it
ContinueWith(rest, listing, final) ==
  /\ files_to_process' = rest
  /\ IF rest = <<>>
     THEN /\ last_checked_files' = listing
          /\ wpc' = IF final THEN "sleep" ELSE "monitor"
     ELSE /\ wpc' = "process"
          /\ UNCHANGED last_checked_files

\* line 333: the key function of the sort raises ValueError on a file name whose
\* index does not parse
SortRaises(files) == \E f \in files : ParseIndex(f) = -1

\* lines 359-360 and monitor_and_send lines 257-264: the exception of the sort
\* leaves the poll: no file of the list is processed, the listing is not kept
PollAborted(final) ==
  /\ files_to_process' = <<>>
  /\ wpc' = IF final THEN "sleep" ELSE "monitor"
  /\ UNCHANGED last_checked_files

\* monitor_and_send lines 252-264 and check_for_new_chunks lines 269-333: one
\* poll up to the sorted list of the files to process.  The list is built in
\* the iteration order of a dict and of a set, then sorted.
Poll ==
  /\ wpc = "monitor"
  /\ \E errs \in {e \in SUBSET Listing : Cardinality(e) <= 1} :
       LET final    == ffmpeg = "exited"
           stableNow == StableNow(errs)
           st1      == StableAfterNew(StableAfterCheck(errs), errs)
           added    == IF final THEN FinalAdded(stableNow, errs) ELSE {}
           st2      == IF final THEN StableAfterFinal(st1, stableNow, errs) ELSE st1
       IN  /\ IF SortRaises(stableNow \cup added)
              THEN PollAborted(final)
              ELSE \E o1 \in Orders(stableNow), o2 \in Orders(added) :
                     ContinueWith(SortFiles(o1 \o o2), Listing, final)
           /\ stable_files' = st2
           /\ final_check' = final
           /\ prevSize' = fsize
  /\ current_files' = Listing
  /\ UNCHANGED <<fsVars, processed_chunk_indices, available_chunk_paths, clients,
                 passVars, srvVars, handlerVars, sock, recvd, appendedInWindow, sentByPass, lockVars>>

\* a store that is appended to only when a participant is registered
StoreAppendWhenClients(store, path) ==
  IF clients = <<>> \/ path \in Range(store) THEN store ELSE Append(store, path)

\* a store that is left as it is
StoreAppendSkipped(store, path) == store

\* lines 343-344: append the path unless it is in the list already
StoreAppend(store, path) == IF path \in Range(store) THEN store ELSE Append(store, path)

InReplayWindow(c) == hpc[c] = "replay"

\* lines 335-344: the next file to process is appended to the store, unless its
\* index is already marked processed: then the file is passed over
AppendStep ==
  /\ wpc = "process"
  /\ files_to_process # <<>>
  /\ IF ParseIndex(Head(files_to_process)) \in processed_chunk_indices
     THEN /\ ContinueWith(Tail(files_to_process), current_files, final_check)
          /\ UNCHANGED <<available_chunk_paths, available_paths_lock>>
     ELSE /\ WithLock(available_paths_lock, MainThread)
          /\ available_chunk_paths' =
               StoreAppend(available_chunk_paths, Head(files_to_process))
          /\ wpc' = "bsnap"
          /\ UNCHANGED <<files_to_process, last_checked_files>>
  /\ UNCHANGED <<fsVars, processed_chunk_indices, stable_files, current_files,
                 final_check, prevSize, clients, passVars, srvVars, handlerVars, sock,
                 recvd, sentByPass, clients_lock>>

AppendAvailable == AppendStep /\ UNCHANGED appendedInWindow

\* the same step, with the history of the replay windows recorded
AppendAvailableRecorded ==
  /\ AppendStep
  /\ appendedInWindow' =
       [c \in Conns |-> appendedInWindow[c]
                        \/ (InReplayWindow(c)
                            /\ available_chunk_paths' # available_chunk_paths)]

\* ------------------------------------------------------ send_single_chunk
\* (SendOutcomesEmptyFrame: send_single_chunk without the test of lines 44-46)
\* What one call of send_single_chunk can do, given the size of the file
\* (-1: no such file) and the state of the socket:
\*   "frame"    one frame is written, True is returned            (lines 48-59)
\*   "noframe"  nothing is written, True is returned              (lines 44-46)
\*   "false"    False is returned                        (lines 37-39, 61-69)
\*   "raise"    an exception leaves the function: sendall raised, and
\*              conn.getpeername() raises again inside the except clause that
\*              formats the log line (lines 64-68).  On a socket the server has
\*              closed getpeername always raises; on a connection the peer has
\*              reset it raises or not, depending on the platform.
SendOutcomesEmptyFrame(size, sk) ==
  IF size = -1 THEN {"false"}
  ELSE IF sk = "closed" THEN {"raise"}
  ELSE IF sk = "reset" THEN {"false", "raise"}
  ELSE {"frame"}

SendOutcomes(size, sk) ==
  IF size = -1 THEN {"false"}
  ELSE IF size = 0 THEN {"noframe"}
  ELSE IF sk = "closed" THEN {"raise"}
  ELSE IF sk = "reset" THEN {"false", "raise"}
  ELSE {"frame"}

\* line 195: the log line of a failed send calls conn.getpeername() as well
MarkOutcomes(sk) ==
  IF sk = "closed" THEN {"raise"}
  ELSE IF sk = "reset" THEN {"false", "raise"}
  ELSE {"false"}

\* what one iteration of the broadcast loop (lines 189-195) can do for conn c
BroadcastOutcomes(c, path) ==
  UNION {IF o = "false" THEN MarkOutcomes(sock[c]) ELSE {o} :
         o \in SendOutcomes(fsize[path], sock[c])}

\* ----------------------------------------------- send_chunk_to_all_current
\* lines 180-186: nothing to do without clients, else copy the registry
BroadcastSnapshot ==
  /\ wpc = "bsnap"
  /\ WithLock(clients_lock, MainThread)
  /\ IF clients = <<>>
     THEN /\ processed_chunk_indices' =
               processed_chunk_indices \cup {ParseIndex(Head(files_to_process))}
          /\ ContinueWith(Tail(files_to_process), current_files, final_check)
          /\ UNCHANGED passVars
     ELSE /\ current_client_list' = clients
          /\ bpos' = 1
          /\ disconnected_clients' = <<>>
          /\ wpc' = "send"
          /\ UNCHANGED <<processed_chunk_indices, files_to_process, last_checked_files>>
  /\ UNCHANGED <<fsVars, stable_files, current_files, final_check, prevSize,
                 available_chunk_paths, clients, srvVars, handlerVars, sock, recvd,
                 appendedInWindow, sentByPass, available_paths_lock>>

\* lines 189-195: one iteration of the broadcast loop.  An exception that leaves
\* send_single_chunk or the log line leaves send_chunk_to_all_current too and is
\* caught at line 351: the index is not marked processed, nobody is evicted.
BroadcastSendStep ==
  /\ wpc = "send"
  /\ bpos <= Len(current_client_list)
  /\ LET c    == current_client_list[bpos]
         path == Head(files_to_process)
     IN  \E o \in BroadcastOutcomes(c, path) :
           /\ recvd' = IF o = "frame"
                       THEN [recvd EXCEPT ![c] =
                               Append(@, Frame(ParseIndex(path), path, fsize[path]))]
                       ELSE recvd
           /\ IF o = "raise"
              THEN /\ ContinueWith(Tail(files_to_process), current_files, final_check)
                   /\ current_client_list' = <<>>
                   /\ bpos' = 0
                   /\ disconnected_clients' = <<>>
              ELSE /\ bpos' = bpos + 1
                   /\ disconnected_clients' =
                        IF o = "false" THEN Append(disconnected_clients, c)
                        ELSE disconnected_clients
                   /\ UNCHANGED <<files_to_process, current_client_list, wpc,
                                  last_checked_files>>
  /\ UNCHANGED <<fsVars, processed_chunk_indices, stable_files, current_files,
                 final_check, prevSize, available_chunk_paths, clients, srvVars,
                 handlerVars, sock, appendedInWindow, lockVars>>

BroadcastSend == BroadcastSendStep /\ UNCHANGED sentByPass

\* the same step, with the history of the frames written by the passes recorded
BroadcastSendRecorded ==
  /\ BroadcastSendStep
  /\ sentByPass' =
       [c \in Conns |->
          IF Len(recvd'[c]) > Len(recvd[c])
          THEN sentByPass[c] \cup {recvd'[c][Len(recvd'[c])].segment_index}
          ELSE sentByPass[c]]

\* the registry rebuilt from the copy of the pass instead of from the registry
EvictFromCopy(cl, failed) == SelectSeq(current_client_list, LAMBDA x : x \notin Range(failed))

\* lines 201-203: the failed connections are removed from the registry
EvictFrom(cl, failed) == SelectSeq(cl, LAMBDA x : x \notin Range(failed))

\* lines 199-208 and line 349: the failed connections are removed and closed,
\* the index is marked processed
BroadcastFinish ==
  /\ wpc = "send"
  /\ bpos > Len(current_client_list)
  /\ IF disconnected_clients # <<>>
     THEN WithLock(clients_lock, MainThread)
     ELSE UNCHANGED clients_lock
  /\ clients' = EvictFrom(clients, disconnected_clients)
  /\ sock' = [c \in Conns |-> IF c \in Range(disconnected_clients) THEN "closed" ELSE sock[c]]
  /\ processed_chunk_indices' =
       processed_chunk_indices \cup {ParseIndex(Head(files_to_process))}
  /\ ContinueWith(Tail(files_to_process), current_files, final_check)
  /\ current_client_list' = <<>>
  /\ bpos' = 0
  /\ disconnected_clients' = <<>>
  /\ UNCHANGED <<fsVars, stable_files, current_files, final_check, prevSize,
                 available_chunk_paths, srvVars, handlerVars, recvd, appendedInWindow,
                 sentByPass, available_paths_lock>>

\* -------------------------------------------------------- start_server_loop
\* lines 155-161: accept() returns a connection and its handler thread starts;
\* the loop then tests server_running again.  Connections are numbered in the
\* order in which they are accepted.
Accept(c) ==
  /\ acceptLoop = "running"
  /\ listening
  /\ hpc[c] = "unborn"
  /\ \A d \in Conns : d < c => hpc[d] # "unborn"
  /\ hpc' = [hpc EXCEPT ![c] = "snapshot"]
  /\ acceptLoop' = IF server_running THEN "running" ELSE "exited"
  /\ UNCHANGED <<fsVars, wpc, pollVars, available_chunk_paths, clients, passVars,
                 server_running, listening, client_list, paths_to_send_on_connect, rpos,
                 client_still_connected, sock, recvd, appendedInWindow, sentByPass, lockVars>>

\* lines 155, 162-169: the loop ends when accept() times out and the flag is
\* clear, or when accept() fails on the closed listening socket
AcceptLoopExit ==
  /\ acceptLoop = "running"
  /\ ~server_running \/ ~listening
  /\ acceptLoop' = "exited"
  /\ UNCHANGED <<fsVars, wpc, pollVars, available_chunk_paths, clients, passVars,
                 server_running, listening, client_list, handlerVars, sock, recvd,
                 appendedInWindow, sentByPass, lockVars>>

\* ------------------------------------------------------------ handle_client
\* the copy of the store without the sort
SnapshotUnsorted(store) == store

\* lines 79-82: the sorted copy of the store
Snapshot(store) == SortByIndex(store)

\* lines 76-82
HandlerSnapshot(c) ==
  /\ hpc[c] = "snapshot"
  /\ WithLock(available_paths_lock, c)
  /\ paths_to_send_on_connect' =
       [paths_to_send_on_connect EXCEPT ![c] = Snapshot(available_chunk_paths)]
  /\ rpos' = [rpos EXCEPT ![c] = 1]
  /\ hpc' = [hpc EXCEPT ![c] = "replay"]
  /\ UNCHANGED <<fsVars, wpc, pollVars, available_chunk_paths, clients, passVars, srvVars,
                 client_still_connected, sock, recvd, appendedInWindow, sentByPass,
                 clients_lock>>

\* a failed replay that leaves the socket open
ReplayFailureNoClose(c) ==
  /\ client_still_connected' = [client_still_connected EXCEPT ![c] = FALSE]
  /\ sock' = sock
  /\ hpc' = [hpc EXCEPT ![c] = "done"]

\* lines 90-92, 95-98 and 110-116: a send of the replay failed: the loop ends,
\* the socket is closed and the handler returns
ReplayFailure(c) ==
  /\ client_still_connected' = [client_still_connected EXCEPT ![c] = FALSE]
  /\ sock' = [sock EXCEPT ![c] = "closed"]
  /\ hpc' = [hpc EXCEPT ![c] = "done"]

\* lines 86-98: one iteration of the replay loop
ReplaySend(c) ==
  /\ hpc[c] = "replay"
  /\ rpos[c] <= Len(paths_to_send_on_connect[c])
  /\ LET path == paths_to_send_on_connect[c][rpos[c]]
     IN  IF ParseIndex(path) = -1
         THEN /\ rpos' = [rpos EXCEPT ![c] = @ + 1]
              /\ UNCHANGED <<hpc, client_still_connected, sock, recvd>>
         ELSE \E o \in SendOutcomes(fsize[path], sock[c]) :
                IF o \in {"frame", "noframe"}
                THEN /\ recvd' = IF o = "frame"
                                 THEN [recvd EXCEPT ![c] =
                                         Append(@, Frame(ParseIndex(path), path, fsize[path]))]
                                 ELSE recvd
                     /\ rpos' = [rpos EXCEPT ![c] = @ + 1]
                     /\ UNCHANGED <<hpc, client_still_connected, sock>>
                ELSE /\ ReplayFailure(c)
                     /\ UNCHANGED <<rpos, recvd>>
  /\ UNCHANGED <<fsVars, wpc, pollVars, available_chunk_paths, clients, passVars, srvVars,
                 paths_to_send_on_connect, appendedInWindow, sentByPass, lockVars>>

\* a handler that registers its connection while its replay is still going on
RegisterEarly(c) ==
  /\ hpc[c] = "replay"
  /\ c \notin Range(clients)
  /\ WithLock(clients_lock, c)
  /\ clients' = Append(clients, c)
  /\ UNCHANGED <<fsVars, wpc, pollVars, available_chunk_paths, passVars, srvVars,
                 handlerVars, sock, recvd, appendedInWindow, sentByPass,
                 available_paths_lock>>

\* lines 106-109: the replay is over and no send failed.  The snapshot and the
\* loop position are not read again: they are reset.
Register(c) ==
  /\ hpc[c] = "replay"
  /\ rpos[c] > Len(paths_to_send_on_connect[c])
  /\ client_still_connected[c]
  /\ WithLock(clients_lock, c)
  /\ clients' = Append(clients, c)
  /\ hpc' = [hpc EXCEPT ![c] = "keepalive"]
  /\ paths_to_send_on_connect' = [paths_to_send_on_connect EXCEPT ![c] = <<>>]
  /\ rpos' = [rpos EXCEPT ![c] = 0]
  /\ UNCHANGED <<fsVars, wpc, pollVars, available_chunk_paths, passVars, srvVars,
                 client_still_connected, sock, recvd, appendedInWindow, sentByPass,
                 available_paths_lock>>

\* a cleanup that leaves the connection in the registry
RemoveConnNoop(cl, c) == cl

\* lines 142-143
RemoveConn(cl, c) == SelectSeq(cl, LAMBDA x : x # c)

\* a keep-alive loop that a timeout of the peek read ends as well
KeepAliveEndsOnTimeout(running, sk) == TRUE

\* lines 121-135: the keep-alive loop ends when the flag is clear, or when the
\* peek read returns empty (the peer has closed) or raises (the connection is
\* reset, or the socket has been closed by another thread); a peek read that
\* times out goes on with the loop
KeepAliveEnds(running, sk) == ~running \/ sk # "open"

\* lines 119-143: the keep-alive loop ends and the handler removes the
\* connection from the registry if it is there
KeepAliveEnd(c) ==
  /\ hpc[c] = "keepalive"
  /\ KeepAliveEnds(server_running, sock[c])
  /\ WithLock(clients_lock, c)
  /\ clients' = RemoveConn(clients, c)
  /\ hpc' = [hpc EXCEPT ![c] = "closing"]
  /\ UNCHANGED <<fsVars, wpc, pollVars, available_chunk_paths, passVars, srvVars,
                 paths_to_send_on_connect, rpos, client_still_connected, sock, recvd,
                 appendedInWindow, sentByPass, available_paths_lock>>

\* lines 144-150
HandlerClose(c) ==
  /\ hpc[c] = "closing"
  /\ sock' = [sock EXCEPT ![c] = "closed"]
  /\ hpc' = [hpc EXCEPT ![c] = "done"]
  /\ UNCHANGED <<fsVars, wpc, pollVars, available_chunk_paths, clients, passVars, srvVars,
                 paths_to_send_on_connect, rpos, client_still_connected, recvd,
                 appendedInWindow, sentByPass, lockVars>>

\* the peer closes or resets its end of the connection
PeerReset(c) ==
  /\ hpc[c] \notin {"unborn", "done"}
  /\ sock[c] = "open"
  /\ sock' = [sock EXCEPT ![c] = "reset"]
  /\ UNCHANGED <<fsVars, wpc, pollVars, available_chunk_paths, clients, passVars, srvVars,
                 handlerVars, recvd, appendedInWindow, sentByPass, lockVars>>

\* ----------------------------------------------------------- cleanup_server
\* __main__ lines 425-446 and cleanup_server line 371
CleanupFlag ==
  /\ wpc = "sleep"
  /\ server_running' = FALSE
  /\ wpc' = "cs_listen"
  /\ UNCHANGED <<fsVars, pollVars, available_chunk_paths, clients, passVars, listening,
                 acceptLoop, client_list, handlerVars, sock, recvd, appendedInWindow, sentByPass, lockVars>>

\* lines 373-379
CleanupListen ==
  /\ wpc = "cs_listen"
  /\ listening' = FALSE
  /\ wpc' = "cs_clear"
  /\ UNCHANGED <<fsVars, pollVars, available_chunk_paths, clients, passVars,
                 server_running, acceptLoop, client_list, handlerVars, sock, recvd,
                 appendedInWindow, sentByPass, lockVars>>

\* lines 382-384
CleanupClear ==
  /\ wpc = "cs_clear"
  /\ WithLock(clients_lock, MainThread)
  /\ client_list' = clients
  /\ clients' = <<>>
  /\ wpc' = "cs_close"
  /\ UNCHANGED <<fsVars, pollVars, available_chunk_paths, passVars, server_running,
                 listening, acceptLoop, handlerVars, sock, recvd, appendedInWindow,
                 sentByPass, available_paths_lock>>

\* lines 385-395
CleanupClose ==
  /\ wpc = "cs_close"
  /\ IF client_list = <<>>
     THEN /\ wpc' = "finished"
          /\ UNCHANGED <<client_list, sock>>
     ELSE /\ sock' = [sock EXCEPT ![Head(client_list)] = "closed"]
          /\ client_list' = Tail(client_list)
          /\ UNCHANGED wpc
  /\ UNCHANGED <<fsVars, pollVars, available_chunk_paths, clients, passVars,
                 server_running, listening, acceptLoop, handlerVars, recvd,
                 appendedInWindow, sentByPass, lockVars>>

\* ------------------------------------------------------------ specification
NextRest ==
  \/ EncCreate
  \/ EncWrite
  \/ EncClose
  \/ EncExit
  \/ Poll
  \/ BroadcastSnapshot
  \/ BroadcastFinish
  \/ AcceptLoopExit
  \/ CleanupFlag
  \/ CleanupListen
  \/ CleanupClear
  \/ CleanupClose
  \/ \E c \in Conns : Accept(c)
  \/ \E c \in Conns : HandlerSnapshot(c)
  \/ \E c \in Conns : ReplaySend(c)
  \/ \E c \in Conns : Register(c)
  \/ \E c \in Conns : KeepAliveEnd(c)
  \/ \E c \in Conns : HandlerClose(c)
  \/ \E c \in Conns : PeerReset(c)

NextButAppend == BroadcastSend \/ NextRest

Next == AppendAvailable \/ NextButAppend

Spec == Init /\ [][Next]_vars

\* the same program, with the history variable appendedInWindow recorded
NextRecorded == AppendAvailableRecorded \/ NextButAppend

SpecRecorded == Init /\ [][NextRecorded]_vars

\* the same program, with the history variable sentByPass recorded
NextPasses == AppendAvailable \/ BroadcastSendRecorded \/ NextRest

SpecPasses == Init /\ [][NextPasses]_vars

\* another process writes the file chunk_abc.mp4 into the chunk directory
ForeignWrite ==
  /\ fsize[ForeignName] < MaxSize
  /\ fsize' = [fsize EXCEPT ![ForeignName] = @ + 1]
  /\ UNCHANGED <<encCur, ffmpeg, wpc, pollVars, available_chunk_paths, clients, passVars,
                 srvVars, handlerVars, sock, recvd, appendedInWindow, sentByPass, lockVars>>

\* the same program with one participant, in a chunk directory that other
\* processes write to
NextForeign ==
  \/ ForeignWrite
  \/ EncCreate
  \/ EncWrite
  \/ EncClose
  \/ EncExit
  \/ Poll
  \/ AppendAvailable
  \/ BroadcastSnapshot
  \/ BroadcastSend
  \/ BroadcastFinish
  \/ AcceptLoopExit
  \/ CleanupFlag
  \/ CleanupListen
  \/ CleanupClear
  \/ CleanupClose
  \/ Accept(1)
  \/ HandlerSnapshot(1)
  \/ ReplaySend(1)
  \/ Register(1)
  \/ KeepAliveEnd(1)
  \/ HandlerClose(1)
  \/ PeerReset(1)

SpecForeign == Init /\ [][NextForeign]_vars

\* the thread is about to enter a block guarded by available_paths_lock
\* (lines 77 and 342)
AtAvailableBlock(t) ==
  IF t = MainThread
  THEN /\ wpc = "process"
       /\ files_to_process # <<>>
       /\ ParseIndex(Head(files_to_process)) \notin processed_chunk_indices
  ELSE hpc[t] = "snapshot"

\* the thread is about to enter a block guarded by clients_lock
\* (lines 107, 141, 180, 200 and 382)
AtClientsBlock(t) ==
  IF t = MainThread
  THEN \/ wpc = "bsnap"
       \/ wpc = "send" /\ bpos > Len(current_client_list) /\ disconnected_clients # <<>>
       \/ wpc = "cs_clear"
  ELSE \/ /\ hpc[t] = "replay"
          /\ rpos[t] > Len(paths_to_send_on_connect[t])
          /\ client_still_connected[t]
       \/ hpc[t] = "keepalive" /\ KeepAliveEnds(server_running, sock[t])

\* threading.Lock.acquire() on entering "with available_paths_lock:": the thread
\* gets the lock when it is free, and waits otherwise
AcquireAvailable(t) ==
  /\ AtAvailableBlock(t)
  /\ available_paths_lock = {}
  /\ available_paths_lock' = {t}
  /\ UNCHANGED <<fsVars, wpc, pollVars, available_chunk_paths, clients, passVars, srvVars,
                 handlerVars, sock, recvd, appendedInWindow, sentByPass, clients_lock>>

\* threading.Lock.acquire() on entering "with clients_lock:"
AcquireClients(t) ==
  /\ AtClientsBlock(t)
  /\ clients_lock = {}
  /\ clients_lock' = {t}
  /\ UNCHANGED <<fsVars, wpc, pollVars, available_chunk_paths, clients, passVars, srvVars,
                 handlerVars, sock, recvd, appendedInWindow, sentByPass,
                 available_paths_lock>>

\* the same program, with the acquisition of a lock and the block it guards as
\* two steps; of the peers, only the first one to connect resets its connection
NextLocks ==
  \/ \E t \in Threads : AcquireAvailable(t)
  \/ \E t \in Threads : AcquireClients(t)
  \/ EncCreate
  \/ EncWrite
  \/ EncClose
  \/ EncExit
  \/ Poll
  \/ AppendAvailable
  \/ BroadcastSnapshot
  \/ BroadcastSend
  \/ BroadcastFinish
  \/ AcceptLoopExit
  \/ CleanupFlag
  \/ CleanupListen
  \/ CleanupClear
  \/ CleanupClose
  \/ \E c \in Conns : Accept(c)
  \/ \E c \in Conns : HandlerSnapshot(c)
  \/ \E c \in Conns : ReplaySend(c)
  \/ \E c \in Conns : Register(c)
  \/ \E c \in Conns : KeepAliveEnd(c)
  \/ \E c \in Conns : HandlerClose(c)
  \/ PeerReset(1)

SpecLocks == Init /\ [][NextLocks]_vars

\* send_single_chunk on its own: replays over any directory content (files
\* missing, empty or not), any snapshot of it and any state of the socket
InitSend ==
  /\ fsize \in [Names -> -1..MaxSize]
  /\ encCur = 0
  /\ ffmpeg = "running"
  /\ wpc = "monitor"
  /\ processed_chunk_indices = {}
  /\ stable_files = [f \in Names |-> -1]
  /\ last_checked_files = {}
  /\ current_files = {}
  /\ files_to_process = <<>>
  /\ final_check = FALSE
  /\ available_chunk_paths = <<>>
  /\ clients = <<>>
  /\ current_client_list = <<>>
  /\ bpos = 0
  /\ disconnected_clients = <<>>
  /\ server_running = TRUE
  /\ listening = TRUE
  /\ acceptLoop = "running"
  /\ client_list = <<>>
  /\ hpc = [c \in Conns |-> "replay"]
  /\ paths_to_send_on_connect \in
       [Conns -> UNION {{Snapshot(o) : o \in Orders(S)} : S \in SUBSET SegNames}]
  /\ rpos = [c \in Conns |-> 1]
  /\ client_still_connected = [c \in Conns |-> TRUE]
  /\ sock \in [Conns -> {"open", "reset", "closed"}]
  /\ recvd = [c \in Conns |-> <<>>]
  /\ appendedInWindow = [c \in Conns |-> FALSE]
  /\ prevSize = [f \in Names |-> -1]
  /\ sentByPass = [c \in Conns |-> {}]
  /\ clients_lock = {}
  /\ available_paths_lock = {}

NextSend == \E c \in Conns : ReplaySend(c)

SpecSend == InitSend /\ [][NextSend]_vars

\* __main__ lines 448-454: after cleanup_server the main thread waits for the
\* accept loop (join) and returns: the process ends.  The accept loop and the
\* handlers are daemon threads (lines 160 and 419): they are not waited for, and
\* stop where they are when the process ends.
ProcessExit ==
  /\ wpc = "finished"
  /\ acceptLoop = "exited"
  /\ wpc' = "exited"
  /\ UNCHANGED <<fsVars, pollVars, available_chunk_paths, clients, passVars, srvVars,
                 handlerVars, sock, recvd, appendedInWindow, sentByPass, lockVars>>

\* the same program up to the end of the process: no thread takes a step after
\* the main thread has returned
NextExit ==
  \/ ProcessExit
  \/ wpc # "exited" /\ EncCreate
  \/ wpc # "exited" /\ EncWrite
  \/ wpc # "exited" /\ EncClose
  \/ wpc # "exited" /\ EncExit
  \/ Poll
  \/ AppendAvailable
  \/ BroadcastSnapshot
  \/ BroadcastSend
  \/ BroadcastFinish
  \/ CleanupFlag
  \/ CleanupListen
  \/ CleanupClear
  \/ CleanupClose
  \/ wpc # "exited" /\ AcceptLoopExit
  \/ \E c \in Conns : wpc # "exited" /\ Accept(c)
  \/ \E c \in Conns : wpc # "exited" /\ HandlerSnapshot(c)
  \/ \E c \in Conns : wpc # "exited" /\ ReplaySend(c)
  \/ \E c \in Conns : wpc # "exited" /\ Register(c)
  \/ \E c \in Conns : wpc # "exited" /\ KeepAliveEnd(c)
  \/ \E c \in Conns : wpc # "exited" /\ HandlerClose(c)
  \/ \E c \in Conns : wpc # "exited" /\ PeerReset(c)

SpecExit == Init /\ [][NextExit]_vars

\* ------------------------------------------------------------------- claims
\* the indices are consecutive: strictly ascending, no gap, no duplicate
Consecutive(s) == \A i \in 1..(Len(s) - 1) : s[i + 1] = s[i] + 1

IndexSet(s) == {ParseIndex(s[i]) : i \in 1..Len(s)}

\* C1: for every connection, the indices of the frames written to it, backlog
\* then live, are strictly ascending with no gap and no duplicate, in every
\* interleaving of the broadcaster with the connection's handler.
C1_Ordering == \A c \in Conns : Consecutive(FrameIndices(recvd[c]))

C3_FaultIsolation ==
  [][(wpc = "send" /\ wpc' # "send") =>
       \A b \in Range(current_client_list) :
         (sock[b] = "open" /\ b \in Range(clients)) =>
           ParseIndex(Head(files_to_process)) \in Range(FrameIndices(recvd'[b]))]_vars

\* C4: a regular poll (not the final flush) puts a file in the list to emit only
\* if its size is non-zero and equal to its size at the previous poll, and
\* nothing but the head of that list is ever appended to the store.
C4_StabilityGate ==
  [][/\ (wpc = "monitor" /\ files_to_process' # <<>> /\ ~final_check') =>
          \A f \in Range(files_to_process') : fsize[f] > 0 /\ fsize[f] = prevSize[f]
     /\ available_chunk_paths' # available_chunk_paths =>
          /\ wpc = "process"
          /\ files_to_process # <<>>
          /\ available_chunk_paths' = Append(available_chunk_paths, Head(files_to_process))
    ]_vars

\* C4 witness: a regular poll has judged a file stable while another file, whose
\* size is zero or first seen, stays watched
C4_Witness ==
  /\ wpc = "process"
  /\ ~final_check
  /\ files_to_process # <<>>
  /\ \E f \in Names : stable_files[f] # -1

\* the step is a send, by the replay of connection c, of a segment whose file is
\* empty
ZeroLengthSend(c) ==
  /\ hpc[c] = "replay"
  /\ rpos[c] <= Len(paths_to_send_on_connect[c])
  /\ fsize[paths_to_send_on_connect[c][rpos[c]]] = 0
  /\ <<hpc[c], rpos[c]>> # <<hpc'[c], rpos'[c]>>

C6_ConditionalOrdering ==
  \A c \in Conns : ~appendedInWindow[c] => Consecutive(FrameIndices(recvd[c]))

\* C7: once a send of the replay has failed, the replay has stopped at that
\* segment, the handler has returned, the socket is closed, the connection is
\* not in the registry nor in a broadcast pass, and the frames written to it are
\* those written before the failure.
C7_ReplayFailure ==
  \A c \in Conns :
    ~client_still_connected[c] =>
      /\ hpc[c] = "done"
      /\ sock[c] = "closed"
      /\ c \notin Range(clients)
      /\ c \notin Range(current_client_list)
      /\ rpos[c] <= Len(paths_to_send_on_connect[c])
      /\ FrameIndices(recvd[c]) =
           SubSeq(Indices(paths_to_send_on_connect[c]), 1, rpos[c] - 1)

\* C7 witness: a replay failed after its first frame, and the main thread has
\* gone through another broadcast pass since
C7_Witness ==
  \E c \in Conns :
    /\ ~client_still_connected[c]
    /\ Len(recvd[c]) >= 1
    /\ wpc = "send"

\* C8: every connection in the registry has completed its replay, is in its
\* keep-alive loop, and its socket has not been closed by the server.
C8_RegistryLive ==
  \A c \in Range(clients) : hpc[c] = "keepalive" /\ sock[c] # "closed"

\* C8 witness: one connection is registered while another one, closed by the
\* broadcaster or by shutdown, is out of the registry with its handler still in
\* the keep-alive loop
C8_Witness ==
  \E c \in Range(clients), d \in Conns :
    /\ hpc[d] = "keepalive"
    /\ sock[d] = "closed"
    /\ d \notin Range(clients)

\* C9: the store, in the order of its appends, is strictly ascending in index
\* (an index is appended only after every smaller index that is ever
\* finalized), and every snapshot is strictly ascending in index.
C9_StorePrefix ==
  /\ \A i, j \in 1..Len(available_chunk_paths) :
       i < j => ParseIndex(available_chunk_paths[i]) < ParseIndex(available_chunk_paths[j])
  /\ \A c \in Conns :
       \A i, j \in 1..Len(paths_to_send_on_connect[c]) :
         i < j => ParseIndex(paths_to_send_on_connect[c][i])
                    < ParseIndex(paths_to_send_on_connect[c][j])

\* the connection was registered and has been removed from the registry
WasRemoved(c) ==
  /\ hpc[c] \in {"keepalive", "closing", "done"}
  /\ client_still_connected[c]
  /\ c \notin Range(clients)

\* C10: a connection that has been removed from the registry is never in the
\* registry again.
C10_NoReAdd == [][\A c \in Conns : WasRemoved(c) => c \notin Range(clients')]_vars

\* C10 witness: a connection has been removed while another one is registered
C10_Witness ==
  \E c, d \in Conns : WasRemoved(c) /\ d \in Range(clients)

\* monitor_and_send has run its final flush and returned
EncoderCompleted == wpc \in {"sleep", "cs_listen", "cs_clear", "cs_close", "finished"}

\* C11: once monitor_and_send has returned, no step adds a connection to the
\* registry: the members after the step are members before it.
C11_NoAddAfterCompletion ==
  [][EncoderCompleted => Range(clients') \subseteq Range(clients)]_vars

\* the step is a broadcast pass writing a frame to connection c
PassWrites(c) ==
  /\ wpc = "send"
  /\ bpos' = bpos + 1
  /\ Len(recvd'[c]) > Len(recvd[c])

\* C12: the store never holds two segments of the same index, and no broadcast
\* pass writes to a connection an index that an earlier pass has written to it,
\* also when the earlier pass ended with an error.
C12_EmitOnce ==
  [][/\ \A i, j \in 1..Len(available_chunk_paths') :
          i < j => ParseIndex(available_chunk_paths'[i]) # ParseIndex(available_chunk_paths'[j])
     /\ \A c \in Conns :
          PassWrites(c) => recvd'[c][Len(recvd'[c])].segment_index \notin sentByPass[c]
    ]_vars

\* C13: every pass of the final flush runs to its end and marks its index
\* processed, and once the final flush has returned every non-empty segment
\* file of the directory is in the store.
C13_FinalFlush ==
  [][/\ (final_check /\ wpc = "send" /\ wpc' # "send") =>
          ParseIndex(Head(files_to_process)) \in processed_chunk_indices'
     /\ EncoderCompleted' =>
          \A f \in SegNames : fsize'[f] > 0 => f \in Range(available_chunk_paths')
    ]_vars

\* the step ends a broadcast pass
PassEnds == wpc = "send" /\ wpc' # "send"

\* the connections of the pass whose send failed: those marked for removal, and
\* the one whose send ended the pass with an exception
FailedInPass ==
  Range(disconnected_clients) \cup
    (IF bpos <= Len(current_client_list) THEN {current_client_list[bpos]} ELSE {})

\* C14: when a broadcast pass ends, every connection of its copy whose send
\* failed is out of the registry and its socket is closed, every other connection
\* of the copy that was registered is still registered, and a pass only ever
\* sends to connections that are in the registry when it starts.
C14_Eviction ==
  [][/\ PassEnds =>
          /\ \A c \in FailedInPass : c \notin Range(clients') /\ sock'[c] = "closed"
          /\ \A c \in Range(current_client_list) \ FailedInPass :
               c \in Range(clients) => c \in Range(clients')
     /\ (wpc = "bsnap" /\ wpc' = "send") =>
          Range(current_client_list') \subseteq Range(clients)
    ]_vars

\* the step is a poll of the watcher, up to its sorted list
PollStep == wpc = "monitor" /\ <<wpc, pollVars>>' # <<wpc, pollVars>>

\* C15: the file chunk_abc.mp4 is never in the list to emit nor in the store,
\* and a poll is never abandoned: a poll that has nothing to emit ends by
\* keeping its listing for the next poll.
C15_ForeignIgnored ==
  [][/\ ForeignName \notin Range(available_chunk_paths')
     /\ PollStep =>
          /\ ForeignName \notin Range(files_to_process')
          /\ wpc' # "process" => last_checked_files' = Listing
    ]_vars

\* C16: a regular poll that finds a watched segment file in the directory and
\* does not put it in the list to emit (its size has changed, is zero, or could
\* not be read) keeps watching it: the following polls check its stability.
C16_Retried ==
  [][(PollStep /\ ffmpeg = "running") =>
       \A f \in SegNames :
         (stable_files[f] # -1 /\ fsize[f] # -1 /\ f \notin Range(files_to_process')) =>
           stable_files'[f] # -1]_vars

\* C17: a handler in its keep-alive loop stays there, and its connection stays
\* registered, as long as the flag is set and the peek read only times out (the
\* socket is open); when the peek read returns empty or raises, or the flag is
\* clear, the handler can leave the loop, and leaving it takes the connection,
\* and nothing else, out of the registry; the handler can then always close the
\* socket and return, also when another thread has removed the connection or
\* closed the socket before.
C17_KeepAlive ==
  [][\A c \in Conns :
       /\ (hpc[c] = "keepalive" /\ server_running /\ sock[c] = "open") =>
            /\ hpc'[c] = "keepalive"
            /\ sock'[c] # "closed"
            /\ c \in Range(clients) => c \in Range(clients')
       /\ (hpc[c] = "keepalive" /\ (~server_running \/ sock[c] # "open")) =>
            ENABLED KeepAliveEnd(c)
       /\ (hpc[c] = "keepalive" /\ hpc'[c] # "keepalive") =>
            /\ hpc'[c] = "closing"
            /\ clients' = SelectSeq(clients, LAMBDA x : x # c)
            /\ sock'[c] = sock[c]
       /\ hpc[c] = "closing" =>
            /\ c \notin Range(clients)
            /\ ENABLED HandlerClose(c)
       /\ (hpc[c] = "closing" /\ hpc'[c] # "closing") =>
            /\ hpc'[c] = "done"
            /\ sock'[c] = "closed"
            /\ clients' = clients]_vars

\* C17 witness: a handler has left its keep-alive loop for a connection that
\* the broadcaster or the shutdown had already closed, while another connection
\* is registered and live
C17_Witness ==
  \E c, d \in Conns :
    /\ hpc[c] = "closing"
    /\ sock[c] = "closed"
    /\ hpc[d] = "keepalive"
    /\ sock[d] = "open"
    /\ d \in Range(clients)

\* C18: cleanup_server clears the running flag before it closes the listening
\* socket, closes the listening socket before it copies and clears the
\* registry, closes every connection of the copy, and when it returns the
\* registry is empty.
C18_Shutdown ==
  [][/\ listening' # listening => (~server_running /\ ~listening')
     /\ (wpc = "cs_clear" /\ wpc' # "cs_clear") =>
          /\ ~server_running /\ ~listening
          /\ client_list' = clients /\ clients' = <<>>
     /\ (wpc = "cs_close" /\ client_list # <<>>) =>
          (client_list' # client_list => sock'[Head(client_list)] = "closed")
     /\ (wpc = "cs_close" /\ wpc' = "finished") =>
          (client_list' = <<>> /\ clients' = <<>>)
    ]_vars

\* the locks thread t holds
Held(t) ==
  (IF t \in clients_lock THEN {"clients_lock"} ELSE {}) \cup
  (IF t \in available_paths_lock THEN {"available_paths_lock"} ELSE {})

\* C19: each lock has at most one holder; no thread holds both locks; a thread
\* that holds a lock is at the block the lock guards and can run it, which
\* releases the lock, so no thread waits for a lock for ever; and the thread that
\* makes a send (with its file read), in a replay or in a broadcast pass, holds
\* no lock.
C19_LockDiscipline ==
  [][/\ Cardinality(clients_lock) <= 1
     /\ Cardinality(available_paths_lock) <= 1
     /\ \A t \in Threads : Cardinality(Held(t)) <= 1
     /\ \A t \in clients_lock : AtClientsBlock(t)
     /\ \A t \in available_paths_lock : AtAvailableBlock(t)
     /\ MainThread \in clients_lock =>
          ENABLED (BroadcastSnapshot \/ BroadcastFinish \/ CleanupClear)
     /\ MainThread \in available_paths_lock => ENABLED AppendAvailable
     /\ \A c \in Conns :
          /\ c \in clients_lock => ENABLED (Register(c) \/ KeepAliveEnd(c))
          /\ c \in available_paths_lock => ENABLED HandlerSnapshot(c)
          /\ (/\ hpc[c] = "replay"
              /\ rpos[c] <= Len(paths_to_send_on_connect[c])
              /\ <<hpc[c], rpos[c]>> # <<hpc'[c], rpos'[c]>>) => Held(c) = {}
     /\ (/\ wpc = "send"
         /\ bpos <= Len(current_client_list)
         /\ <<wpc, bpos>> # <<wpc', bpos'>>) => Held(MainThread) = {}
    ]_vars

\* C19 witness: the main thread holds clients_lock at the copy of the registry
\* while one handler waits for it to register and another handler holds
\* available_paths_lock for its snapshot
C19_Witness ==
  \E c, d \in Conns :
    /\ clients_lock = {MainThread}
    /\ wpc = "bsnap"
    /\ AtClientsBlock(c)
    /\ available_paths_lock = {d}

\* the main thread is in the loop over the files of a poll
InPollLoop == wpc \in {"process", "bsnap", "send"}

\* C20: whatever happens to the sends, every file of a poll's list is in the
\* store before it leaves the list, the files leave the list one by one from its
\* head, a pass that ends, with an exception or not, hands over to the next file
\* or to the next poll, and the main thread always has a step to take inside
\* the loop.
C20_WatcherProgress ==
  [][/\ InPollLoop =>
          /\ files_to_process # <<>>
          /\ ENABLED (AppendAvailable \/ BroadcastSnapshot \/ BroadcastSend
                      \/ BroadcastFinish)
     /\ wpc \in {"bsnap", "send"} =>
          Head(files_to_process) \in Range(available_chunk_paths)
     /\ (InPollLoop /\ files_to_process' # files_to_process) =>
          /\ files_to_process' = Tail(files_to_process)
          /\ Head(files_to_process) \in Range(available_chunk_paths')
          /\ wpc' = IF files_to_process' # <<>> THEN "process"
                    ELSE IF final_check THEN "sleep" ELSE "monitor"
     /\ PassEnds => files_to_process' = Tail(files_to_process)
     /\ \A i \in 1..Len(available_chunk_paths) :
          available_chunk_paths'[i] = available_chunk_paths[i]
    ]_vars

\* C20 witness: the pass of the first segment of the store was left by an
\* exception (its index is not marked processed), and the watcher has appended
\* the next segment and is in its pass
C20_Witness ==
  /\ wpc = "send"
  /\ Len(available_chunk_paths) = 2
  /\ ParseIndex(available_chunk_paths[1]) \notin processed_chunk_indices
  /\ Head(files_to_process) = available_chunk_paths[2]

\* C21: the segment of a broadcast pass is in the store from before the copy of
\* the registry on; a segment is appended when its turn comes, with or without
\* registered connections, so every index marked processed is in the store; and
\* every index a broadcast pass has written to a connection is in the store
\* (true of the initial state, and kept by every step that changes the store,
\* the marks or the frames written by the passes).
C21_AppendBeforeBroadcast ==
  [][/\ (wpc = "process" /\ wpc' = "bsnap") =>
          Head(files_to_process) \in Range(available_chunk_paths')
     /\ wpc \in {"bsnap", "send"} =>
          Head(files_to_process) \in Range(available_chunk_paths)
     /\ <<processed_chunk_indices, sentByPass, available_chunk_paths>>' #
          <<processed_chunk_indices, sentByPass, available_chunk_paths>> =>
          /\ processed_chunk_indices' \subseteq IndexSet(available_chunk_paths')
          /\ \A c \in Conns : sentByPass'[c] \subseteq IndexSet(available_chunk_paths')
    ]_vars

\* C21 witness: segment 0 was appended and marked processed while no connection
\* was in a pass for it, and a connection has been written segment 1, and only
\* segment 1, by a pass
C21_Witness ==
  \E c \in Conns :
    /\ sentByPass[c] = {1}
    /\ processed_chunk_indices = {0, 1}
    /\ Len(available_chunk_paths) = 2

\* the step is a send on connection c by its handler (a send of the replay)
HandlerSends(c) ==
  /\ hpc[c] = "replay"
  /\ rpos[c] <= Len(paths_to_send_on_connect[c])
  /\ <<hpc[c], rpos[c]>> # <<hpc'[c], rpos'[c]>>

\* the main thread is in a broadcast pass, at the send to connection c
BroadcasterAt(c) ==
  /\ wpc = "send"
  /\ bpos <= Len(current_client_list)
  /\ current_client_list[bpos] = c

\* C22: a connection whose handler has not finished its replay is neither in
\* the registry nor in the copy of a broadcast pass, so the handler never makes
\* a send on a connection the broadcaster is sending to; and every frame written
\* to a connection is written either by its handler during the replay or by the
\* broadcaster at that connection's turn in a pass, never by both.
C22_SingleSender ==
  [][\A c \in Conns :
       /\ hpc[c] \in {"unborn", "snapshot", "replay"} =>
            /\ c \notin Range(clients)
            /\ c \notin Range(current_client_list)
       /\ HandlerSends(c) => ~BroadcasterAt(c)
       /\ Len(recvd'[c]) > Len(recvd[c]) =>
            /\ Len(recvd'[c]) = Len(recvd[c]) + 1
            /\ HandlerSends(c) # (BroadcasterAt(c) /\ bpos' = bpos + 1)
    ]_vars

\* C22 witness: a handler is in the middle of its replay, one frame written,
\* while the broadcaster is in a pass at the send to another connection
C22_Witness ==
  \E c, d \in Conns :
    /\ hpc[c] = "replay"
    /\ rpos[c] <= Len(paths_to_send_on_connect[c])
    /\ Len(recvd[c]) >= 1
    /\ BroadcasterAt(d)

\* the accept loop and every handler have run to their end, the registry is
\* empty and every accepted socket has been closed
ShutdownComplete ==
  /\ acceptLoop = "exited"
  /\ clients = <<>>
  /\ \A c \in Conns : hpc[c] \in {"unborn", "done"}
  /\ \A c \in Conns : hpc[c] = "done" => sock[c] = "closed"

\* C23: by the time the process ends, the accept loop and every handler have
\* terminated, every connection registered after the clear has been removed and
\* closed by its handler, and the registry is empty.
C23_ShutdownLiveness == wpc = "exited" => ShutdownComplete

====
